---- MODULE Spec2Model ----
(***************************************************************************)
(* The Streamlit dendrogram component of idendrogram                        *)
(* (frontend/src/index.tsx): module startup, the render handler onRender    *)
(* with create_container, create_axis, draw_links and draw_nodes, and the   *)
(* pointer handlers that draw_nodes attaches.                               *)
(*                                                                          *)
(* The document is modelled by the root svg elements it holds (svgs), the   *)
(* tooltip divs appended to body (tooltips) and the r attribute of the      *)
(* mounted circles (circleR).  Every handler runs to completion, so each    *)
(* handler is one action; an exception ends the handler where it is thrown. *)
(***************************************************************************)
EXTENDS Integers, Sequences, FiniteSets, TLC

(* ------------------------------ bounds --------------------------------- *)
\* render events the host delivers in one behaviour
MaxRenders == 2
\* clicks in one behaviour
MaxClicks == 1

(* ------------------------- program constants --------------------------- *)
default_margin == 50
label_margin_size == 200
\* the value of a scale applied to undefined, and of an undefined coordinate
NaN == -1000000

Orientations == {"top", "bottom", "left", "right"}

(* --------------------------- scales (d3) -------------------------------- *)
\* base-2 logarithm of a power of two; the log and symlog scales only use
\* ratios of logarithms, so the base does not matter
RECURSIVE Log2(_)
Log2(v) == IF v <= 1 THEN 0 ELSE 1 + Log2(v \div 2)

\* the transform a scale applies before interpolating
ScaleTransform(type, v) ==
    CASE type = "symlog" -> Log2(1 + v)     \* sign(v) * log1p(|v| / 1), v >= 0
      [] type = "log"    -> Log2(v)
      [] OTHER           -> v

\* scale(v) for a scale with the given domain and range
ScaleApply(scale, v) ==
    IF v = NaN \/ (scale.type = "log" /\ v <= 0)
    THEN NaN
    ELSE LET t0 == ScaleTransform(scale.type, scale.domain[1])
             t1 == ScaleTransform(scale.type, scale.domain[2])
             t  == ScaleTransform(scale.type, v)
         IN  scale.range[1] + ((t - t0) * (scale.range[2] - scale.range[1])) \div (t1 - t0)

(* ----------------------------- onRender ---------------------------------- *)
\* the label margin put on the side the orientation names
margin_map_same(o) == o

margin_map(o) ==
    CASE o = "top"    -> "bottom"
      [] o = "bottom" -> "top"
      [] o = "left"   -> "right"
      [] o = "right"  -> "left"

\* the Dimensions onRender derives from the render arguments
MakeDimensions(args) ==
    LET margin == [top |-> default_margin, right |-> default_margin,
                   bottom |-> default_margin, left |-> default_margin]
        m == [margin EXCEPT ![margin_map(args.orientation)] = label_margin_size]
    IN  [height |-> args.height, width |-> args.width, margin |-> m,
         innerHeight |-> args.height - m.top - m.bottom,
         innerWidth |-> args.width - m.left - m.right,
         orientation |-> args.orientation]

\* create_container without the removal of the previous root
RemoveIdendro_kept(doc) == doc

\* d3.select("#idendro").remove(): the first element with that id goes
RemoveIdendro(doc) == IF doc = <<>> THEN doc ELSE Tail(doc)

\* the body's svg children after create_container
create_container(doc, dimensions, children) ==
    Append(RemoveIdendro(doc),
           [id |-> "idendro", width |-> dimensions.width, height |-> dimensions.height,
            plot |-> [id |-> "idendro-container",
                      transform |-> <<dimensions.margin.left, dimensions.margin.top>>,
                      children |-> children]])

\* create_axis with the value range of "bottom" inverted like that of "top"
AxisLayout_bottomInverted(dimensions) ==
    IF dimensions.orientation \in {"top", "bottom"}
    THEN [label_range |-> <<0, dimensions.innerWidth>>,
          value_axis_func |-> "axisLeft",
          value_axis_transform |-> <<0, 0>>,
          value_range |-> <<dimensions.innerHeight, 0>>,
          label_axis_func |-> IF dimensions.orientation = "top"
                              THEN "axisBottom" ELSE "axisTop",
          label_axis_transform |-> IF dimensions.orientation = "top"
                                   THEN <<0, dimensions.innerHeight>> ELSE <<0, 0>>]
    ELSE [label_range |-> <<dimensions.innerHeight, 0>>,
          value_axis_func |-> "axisBottom",
          value_axis_transform |-> <<0, dimensions.innerHeight>>,
          value_range |-> IF dimensions.orientation = "left"
                          THEN <<dimensions.innerWidth, 0>>
                          ELSE <<0, dimensions.innerWidth>>,
          label_axis_func |-> IF dimensions.orientation = "left"
                              THEN "axisRight" ELSE "axisLeft",
          label_axis_transform |-> IF dimensions.orientation = "left"
                                   THEN <<dimensions.innerWidth, 0>> ELSE <<0, 0>>]

\* create_axis: how the orientation sets the ranges and the axis placement
AxisLayout(dimensions) ==
    IF dimensions.orientation \in {"top", "bottom"}
    THEN [label_range |-> <<0, dimensions.innerWidth>>,
          value_axis_func |-> "axisLeft",
          value_axis_transform |-> <<0, 0>>,
          value_range |-> IF dimensions.orientation = "top"
                          THEN <<dimensions.innerHeight, 0>>
                          ELSE <<0, dimensions.innerHeight>>,
          label_axis_func |-> IF dimensions.orientation = "top"
                              THEN "axisBottom" ELSE "axisTop",
          label_axis_transform |-> IF dimensions.orientation = "top"
                                   THEN <<0, dimensions.innerHeight>> ELSE <<0, 0>>]
    ELSE [label_range |-> <<dimensions.innerHeight, 0>>,
          value_axis_func |-> "axisBottom",
          value_axis_transform |-> <<0, dimensions.innerHeight>>,
          value_range |-> IF dimensions.orientation = "left"
                          THEN <<dimensions.innerWidth, 0>>
                          ELSE <<0, dimensions.innerWidth>>,
          label_axis_func |-> IF dimensions.orientation = "left"
                              THEN "axisRight" ELSE "axisLeft",
          label_axis_transform |-> IF dimensions.orientation = "left"
                                   THEN <<dimensions.innerWidth, 0>> ELSE <<0, 0>>]

labelScale(dimensions, dendrogram) ==
    [type |-> "linear", domain |-> dendrogram.x_domain,
     range |-> AxisLayout(dimensions).label_range]

valueScale(dimensions, dendrogram, scale_type) ==
    [type |-> IF scale_type \in {"symlog", "log"} THEN scale_type ELSE "linear",
     domain |-> dendrogram.y_domain,
     range |-> AxisLayout(dimensions).value_range]

\* the label-axis group as first appended: tick i at labelScale(axis_labels[i].x)
\* with text axis_labels[i].label; its texts are not yet rotated or anchored
LabelAxisGroup(dimensions, dendrogram) ==
    [tag |-> "label-axis",
     transform |-> AxisLayout(dimensions).label_axis_transform,
     axis |-> AxisLayout(dimensions).label_axis_func,
     ticks |-> [i \in 1..Len(dendrogram.axis_labels) |->
                  [at |-> ScaleApply(labelScale(dimensions, dendrogram),
                                     dendrogram.axis_labels[i].x),
                   text |-> dendrogram.axis_labels[i].label]],
     rotate |-> NaN, anchor |-> ""]

ValueAxisGroup(dimensions, dendrogram, scale_type) ==
    [tag |-> "value-axis",
     transform |-> AxisLayout(dimensions).value_axis_transform,
     axis |-> AxisLayout(dimensions).value_axis_func,
     scale |-> valueScale(dimensions, dendrogram, scale_type)]

\* create_axis: the groups appended to the plot, and whether reading
\* axis_labels[0].labelAngle threw (it does on an empty axis_labels)
create_axis(dimensions, dendrogram, scale_type) ==
    IF dendrogram.axis_labels = <<>>
    THEN [threw |-> TRUE, groups |-> <<LabelAxisGroup(dimensions, dendrogram)>>]
    ELSE LET labelAngle == dendrogram.axis_labels[1].labelAngle
         IN  [threw |-> FALSE,
              groups |-> << [LabelAxisGroup(dimensions, dendrogram) EXCEPT
                               !.rotate = labelAngle,
                               !.anchor = IF labelAngle < 0 THEN "end" ELSE "start"],
                            ValueAxisGroup(dimensions, dendrogram, scale_type) >>]

\* the coordinate remap of onRender: link.data for every link, and for
\* left/right the in-place exchange of every node's x and y
coord(i, xs, ys) == IF i <= Len(ys) THEN ys[i] ELSE NaN

Normalize(dendrogram, orientation) ==
    IF orientation \in {"top", "bottom"}
    THEN [dendrogram EXCEPT
            !.links = [k \in 1..Len(dendrogram.links) |->
                [dendrogram.links[k] EXCEPT
                   !.data = [i \in 1..Len(dendrogram.links[k].x) |->
                               [x |-> dendrogram.links[k].x[i],
                                y |-> coord(i, dendrogram.links[k].x, dendrogram.links[k].y)]]]]]
    ELSE [dendrogram EXCEPT
            !.links = [k \in 1..Len(dendrogram.links) |->
                [dendrogram.links[k] EXCEPT
                   !.data = [i \in 1..Len(dendrogram.links[k].x) |->
                               [y |-> dendrogram.links[k].x[i],
                                x |-> coord(i, dendrogram.links[k].x, dendrogram.links[k].y)]]]],
            !.nodes = [n \in 1..Len(dendrogram.nodes) |->
                [dendrogram.nodes[n] EXCEPT !.x = dendrogram.nodes[n].y,
                                            !.y = dendrogram.nodes[n].x]]]

\* xScale(d.x) || 0
OrZero(v) == IF v = NaN THEN 0 ELSE v

\* draw_links: one path per link through its data, in order
draw_links(links, xScale, yScale) ==
    [tag |-> "link-container",
     paths |-> [k \in 1..Len(links) |->
                  [i \in 1..Len(links[k].data) |->
                     << OrZero(ScaleApply(xScale, links[k].data[i].x)),
                        OrZero(ScaleApply(yScale, links[k].data[i].y)) >>]]]

\* draw_nodes translating each g by the node's raw coordinates
draw_nodes_unscaled(nodes, xScale, yScale) ==
    [tag |-> "node-container",
     nodes |-> [n \in 1..Len(nodes) |->
                  [transform |-> << nodes[n].x, nodes[n].y >>,
                   datum |-> n,
                   text |-> nodes[n].label]]]

\* draw_nodes: one g per node, translated to the node's scaled coordinates
draw_nodes(nodes, xScale, yScale) ==
    [tag |-> "node-container",
     nodes |-> [n \in 1..Len(nodes) |->
                  [transform |-> << ScaleApply(xScale, nodes[n].x),
                                    ScaleApply(yScale, nodes[n].y) >>,
                   datum |-> n,
                   text |-> nodes[n].label]]]

\* the tooltip div draw_nodes appends to body
NewTooltip == [opacity |-> 0, display |-> "block", html |-> <<>>, pos |-> <<>>]

\* onRender on the dendrogram object dg: the object after the handler, the
\* children of the plot group, whether draw_nodes ran, and the steps taken
onRender(args, dg) ==
    LET dimensions == MakeDimensions(args)
        axes == create_axis(dimensions, dg, args.scale)
        vertical == dimensions.orientation \in {"top", "bottom"}
        lScale == labelScale(dimensions, dg)
        vScale == valueScale(dimensions, dg, args.scale)
        xScale == IF vertical THEN lScale ELSE vScale
        yScale == IF vertical THEN vScale ELSE lScale
        normalized == Normalize(dg, dimensions.orientation)
        links == draw_links(normalized.links, xScale, yScale)
        nodes == draw_nodes(normalized.nodes, xScale, yScale)
    IN  IF axes.threw
        THEN [dendrogram |-> dg, dimensions |-> dimensions,
              children |-> axes.groups, drewNodes |-> FALSE,
              steps |-> <<"create_container", "label-axis">>]
        ELSE [dendrogram |-> normalized, dimensions |-> dimensions,
              children |-> IF args.show_nodes THEN axes.groups \o <<links, nodes>>
                           ELSE axes.groups \o <<links>>,
              drewNodes |-> args.show_nodes,
              steps |-> IF args.show_nodes
                        THEN <<"create_container", "label-axis", "value-axis",
                               "link-container", "node-container", "setFrameHeight">>
                        ELSE <<"create_container", "label-axis", "value-axis",
                               "link-container", "setFrameHeight">>]

(* ------------------------- pointer handlers ------------------------------ *)
\* d.radius * 1.5
Enlarge(radius) == (radius * 3) \div 2

\* the html mouseover builds from a hover payload: a string verbatim, or
\* one "<strong>key</strong>: value<br>" chunk per entry, in entry order
HoverHtml(hovertext) ==
    IF hovertext.t = "string"
    THEN << <<hovertext.s>> >>
    ELSE [i \in 1..Len(hovertext.m) |->
            <<"<strong>", hovertext.m[i][1], "</strong>: ", hovertext.m[i][2], "<br>">>]

\* mouseover on a node's circle or text: the tooltip and the circle's r after
\* the handler.  Object.entries(null) throws before the html and r are set.
mouseover(tooltip, d, nodeName, r) ==
    LET shown == [tooltip EXCEPT !.opacity = 1, !.display = "initial"]
    IN  IF d.hovertext.t = "null"
        THEN [tooltip |-> shown, r |-> r, threw |-> TRUE]
        ELSE [tooltip |-> [shown EXCEPT !.html = HoverHtml(d.hovertext)],
              r |-> IF nodeName = "circle" THEN Enlarge(d.radius) ELSE r,
              threw |-> FALSE]

mousemove(tooltip, d, nodeName, r, e) ==
    [tooltip |-> [tooltip EXCEPT !.pos = e],
     r |-> IF nodeName = "circle" THEN Enlarge(d.radius) ELSE r]

mouseleave(tooltip, d, nodeName, r) ==
    [tooltip |-> [tooltip EXCEPT !.opacity = 0],
     r |-> IF nodeName = "circle" THEN d.radius ELSE r]

\* a click that reports the node without its hover payload
click_partial(d) == [d EXCEPT !.hovertext = [t |-> "null", s |-> "", m |-> <<>>]]

\* Streamlit.setComponentValue(d)
click(d) == d

\* the handlers the tooltip div itself carries
tooltip_mouseover(tooltip) == [tooltip EXCEPT !.opacity = 1]
tooltip_mouseleave(tooltip) == [tooltip EXCEPT !.opacity = 0, !.display = "none"]

(* --------------------------- host payloads ------------------------------- *)
HoverString == [t |-> "string", s |-> "leaf 1", m |-> <<>>]
HoverObject == [t |-> "object", s |-> "",
                m |-> << <<"id", "7">>, <<"count", "3">> >>]
HoverNull   == [t |-> "null", s |-> "", m |-> <<>>]

\* a value scale kind with a domain it is defined on and an inner value
ScaleInputs ==
    { [type |-> "linear", domain |-> <<0, 10>>, mid |-> 5],
      [type |-> "log",    domain |-> <<1, 4>>,  mid |-> 2],
      [type |-> "symlog", domain |-> <<0, 3>>,  mid |-> 1] }

LabelChoices ==
    { <<>>,
      << [x |-> 1, label |-> "A", labelAngle |-> -90],
         [x |-> 0, label |-> "B", labelAngle |-> 0] >> }

\* a dendrogram of two nodes and one link over x_domain [0,1] and the given
\* value domain; ylen is the length of the link's y array (4 when well formed)
MakeDendrogram(si, labels, hover1, ylen) ==
    [axis_labels |-> labels,
     x_domain |-> <<0, 1>>,
     y_domain |-> si.domain,
     nodes |-> << [x |-> 0, y |-> si.domain[1], id |-> 1, label |-> "n1",
                   radius |-> 2, hovertext |-> hover1],
                  [x |-> 1, y |-> si.domain[2], id |-> 2, label |-> "n2",
                   radius |-> 4, hovertext |-> HoverObject] >>,
     links |-> << [id |-> 1,
                   x |-> <<0, 0, 1, 1>>,
                   y |-> SubSeq(<<si.domain[1], si.domain[2], si.domain[2], si.mid, si.mid>>,
                                1, ylen),
                   data |-> <<>>] >>]

Sizes == { [width |-> 200, height |-> 350], [width |-> 350, height |-> 200] }

RenderArgs(si, labels, hover1, ylen, sn, sz, o) ==
    [dendrogram |-> MakeDendrogram(si, labels, hover1, ylen), scale |-> si.type,
     show_nodes |-> sn, height |-> sz.height, width |-> sz.width, orientation |-> o]

\* the render event payloads of the interaction specification: a vertical
\* drawing with and without nodes, a horizontal one whose first node has no
\* hover payload, and one with no axis labels
Args ==
    LET si == CHOOSE s \in ScaleInputs : s.type = "linear"
        sz == [width |-> 200, height |-> 350]
        labels == CHOOSE l \in LabelChoices : l # <<>>
    IN  { RenderArgs(si, labels, HoverString, 4, TRUE, sz, "bottom"),
          RenderArgs(si, labels, HoverString, 4, FALSE, sz, "bottom"),
          RenderArgs(si, labels, HoverNull, 4, TRUE, sz, "left"),
          RenderArgs(si, <<>>, HoverNull, 4, TRUE, sz, "left") }

\* the render event payloads of the rendering specification
ArgsWide ==
    { RenderArgs(si, labels, hover1, ylen, sn, sz, o) :
        si \in ScaleInputs, labels \in LabelChoices,
        hover1 \in {HoverString}, ylen \in {3, 4}, sn \in BOOLEAN,
        sz \in Sizes, o \in Orientations }

NoDendrogram ==
    [axis_labels |-> <<>>, x_domain |-> <<0, 0>>, y_domain |-> <<0, 0>>,
     nodes |-> <<>>, links |-> <<>>]

(* ------------------------------- state ----------------------------------- *)
VARIABLES
    pc,               \* statements of the module's startup code executed
    startupLog,       \* the startup calls made, in order
    listening,        \* a RENDER_EVENT listener is attached
    readyCalls,       \* Streamlit.setComponentReady() calls
    frameHeightCalls, \* Streamlit.setFrameHeight() calls
    queued,           \* render events sent by the host and not yet dispatched
    sent,             \* render events the host has sent
    handled,          \* render events onRender was called for
    missed,           \* render events dispatched with no listener attached
    hostDendrogram,   \* the dendrogram of the last event, as the host supplied it
    dendrogram,       \* the dendrogram object the component holds
    dimensions,       \* the Dimensions of the last render
    svgs,             \* the svg elements with id idendro in body, in order
    circleR,          \* the r attribute of the mounted circles, by node
    tooltips,         \* the div.idendro-tooltip elements in body, in order
    pointer,          \* the element under the pointer
    componentValue,   \* the value last reported to the host, if any
    valueCount,       \* values reported to the host
    steps,            \* the steps the last onRender call completed
    renderKind        \* whether the last event carried a fresh object or the same one

vars == << pc, startupLog, listening, readyCalls, frameHeightCalls, queued, sent,
           handled, missed, hostDendrogram, dendrogram, dimensions, svgs, circleR,
           tooltips, pointer, componentValue, valueCount, steps, renderKind >>

startupVars == << pc, startupLog, listening, readyCalls >>
hostVars == << queued, sent, handled, missed >>
renderVars == << hostDendrogram, dendrogram, dimensions, svgs, steps, renderKind >>

NoPointer == [on |-> "none", idx |-> 0]

\* the pointer positions an event can carry
PointerXY == { <<5, 7>>, <<8, 3>> }

Init ==
    /\ pc = 0
    /\ startupLog = <<>>
    /\ listening = FALSE
    /\ readyCalls = 0
    /\ frameHeightCalls = 0
    /\ queued = 0
    /\ sent = 0
    /\ handled = 0
    /\ missed = 0
    /\ hostDendrogram = NoDendrogram
    /\ dendrogram = NoDendrogram
    /\ dimensions = MakeDimensions([height |-> 0, width |-> 0, orientation |-> "top"])
    /\ svgs = <<>>
    /\ circleR = <<>>
    /\ tooltips = <<>>
    /\ pointer = NoPointer
    /\ componentValue = <<>>
    /\ valueCount = 0
    /\ steps = <<>>
    /\ renderKind = "none"

(* ------------------------------ startup ---------------------------------- *)
\* the startup code with readiness signalled before the listener is attached
StartupScript_readyFirst == <<"setComponentReady", "addEventListener", "setFrameHeight">>

\* the statements at the end of the module, in order
StartupScript == <<"addEventListener", "setComponentReady", "setFrameHeight">>

Startup ==
    /\ pc < Len(StartupScript)
    /\ LET s == StartupScript[pc + 1]
       IN  /\ pc' = pc + 1
           /\ startupLog' = Append(startupLog, s)
           /\ listening' = (listening \/ s = "addEventListener")
           /\ readyCalls' = readyCalls + (IF s = "setComponentReady" THEN 1 ELSE 0)
           /\ frameHeightCalls' = frameHeightCalls + (IF s = "setFrameHeight" THEN 1 ELSE 0)
    /\ UNCHANGED << hostVars, renderVars, circleR, tooltips, pointer,
                    componentValue, valueCount >>

(* ------------------------------- host ------------------------------------ *)
\* the host sends a render event: only once the component has signalled that
\* it is ready, and one at a time
HostSend ==
    /\ readyCalls > 0
    /\ queued = 0
    /\ sent < MaxRenders
    /\ queued' = 1
    /\ sent' = sent + 1
    /\ UNCHANGED << startupVars, frameHeightCalls, handled, missed, renderVars,
                    circleR, tooltips, pointer, componentValue, valueCount >>

\* the event loop dispatches the queued render event once the startup code has
\* run to its end; with no listener attached the event is lost.  The event
\* carries a fresh dendrogram object, or (fresh = FALSE) the object of the
\* previous event again.
RenderEvent(args, fresh) ==
    /\ queued = 1
    /\ pc = Len(StartupScript)
    /\ fresh \/ (handled > 0 /\ args.dendrogram = hostDendrogram)
    /\ queued' = 0
    /\ UNCHANGED << startupVars, sent, componentValue, valueCount >>
    /\ IF ~listening
       THEN /\ missed' = missed + 1
            /\ UNCHANGED << handled, frameHeightCalls, renderVars, circleR, tooltips,
                            pointer >>
       ELSE LET r == onRender(args, IF fresh THEN args.dendrogram ELSE dendrogram)
                done == r.steps[Len(r.steps)] = "setFrameHeight"
            IN  /\ missed' = missed
                /\ handled' = handled + 1
                /\ hostDendrogram' = args.dendrogram
                /\ dendrogram' = r.dendrogram
                /\ dimensions' = r.dimensions
                /\ svgs' = create_container(svgs, r.dimensions, r.children)
                /\ circleR' = IF r.drewNodes
                              THEN [n \in 1..Len(r.dendrogram.nodes) |->
                                      r.dendrogram.nodes[n].radius]
                              ELSE <<>>
                /\ tooltips' = IF r.drewNodes THEN Append(tooltips, NewTooltip)
                               ELSE tooltips
                /\ pointer' = IF pointer.on \in {"circle", "text"} THEN NoPointer
                              ELSE pointer
                /\ steps' = r.steps
                /\ frameHeightCalls' = frameHeightCalls + (IF done THEN 1 ELSE 0)
                /\ renderKind' = IF fresh THEN "fresh" ELSE "same"

(* ------------------------------ pointer ---------------------------------- *)
\* the nodes of the mounted drawing, and the tooltip their handlers close over
Mounted == 1..Len(circleR)
Tip == Len(tooltips)

NodeEvent(n, out) ==
    /\ tooltips' = [tooltips EXCEPT ![Tip] = out.tooltip]
    /\ circleR' = [circleR EXCEPT ![n] = out.r]
    /\ UNCHANGED << startupVars, frameHeightCalls, hostVars, renderVars,
                    componentValue, valueCount >>

\* the pointer enters the circle or the text of node n at xy
MouseOver(nodeName, n, xy) ==
    /\ pointer = NoPointer
    /\ n \in Mounted
    /\ pointer' = [on |-> nodeName, idx |-> n]
    /\ NodeEvent(n,
                 mouseover(tooltips[Tip], dendrogram.nodes[n], nodeName, circleR[n]))

\* the pointer moves to xy inside the element it is over
MouseMove(xy) ==
    /\ pointer.on \in {"circle", "text"}
    /\ pointer' = pointer
    /\ NodeEvent(pointer.idx,
                 mousemove(tooltips[Tip], dendrogram.nodes[pointer.idx], pointer.on,
                           circleR[pointer.idx], xy))

\* the pointer leaves the element it is over
MouseLeave ==
    /\ pointer.on \in {"circle", "text"}
    /\ pointer' = NoPointer
    /\ NodeEvent(pointer.idx,
                 mouseleave(tooltips[Tip], dendrogram.nodes[pointer.idx], pointer.on,
                            circleR[pointer.idx]))

\* a click on the element under the pointer
Click ==
    /\ pointer.on \in {"circle", "text"}
    /\ valueCount < MaxClicks
    /\ componentValue' = << click(dendrogram.nodes[pointer.idx]) >>
    /\ valueCount' = valueCount + 1
    /\ UNCHANGED << startupVars, frameHeightCalls, hostVars, renderVars, circleR,
                    tooltips, pointer >>

\* the pointer enters a tooltip div that is laid out
TooltipOver(t) ==
    /\ pointer = NoPointer
    /\ t \in 1..Len(tooltips)
    /\ tooltips[t].display # "none"
    /\ pointer' = [on |-> "tooltip", idx |-> t]
    /\ tooltips' = [tooltips EXCEPT ![t] = tooltip_mouseover(tooltips[t])]
    /\ UNCHANGED << startupVars, frameHeightCalls, hostVars, renderVars, circleR,
                    componentValue, valueCount >>

TooltipLeave ==
    /\ pointer.on = "tooltip"
    /\ pointer' = NoPointer
    /\ tooltips' = [tooltips EXCEPT ![pointer.idx] = tooltip_mouseleave(tooltips[pointer.idx])]
    /\ UNCHANGED << startupVars, frameHeightCalls, hostVars, renderVars, circleR,
                    componentValue, valueCount >>

(* --------------------------- specifications ------------------------------ *)
Next ==
    \/ Startup
    \/ HostSend
    \/ \E args \in Args : RenderEvent(args, TRUE)
    \/ \E args \in Args : RenderEvent(args, FALSE)
    \/ \E nodeName \in {"circle", "text"}, n \in Mounted, xy \in PointerXY :
          MouseOver(nodeName, n, xy)
    \/ \E xy \in PointerXY : MouseMove(xy)
    \/ MouseLeave
    \/ Click
    \/ \E t \in 1..Len(tooltips) : TooltipOver(t)
    \/ TooltipLeave

Spec == Init /\ [][Next]_vars

\* rendering alone, over every orientation, scale kind, size and payload shape
NextRender ==
    \/ Startup
    \/ HostSend
    \/ \E args \in ArgsWide : RenderEvent(args, TRUE)
    \/ \E args \in ArgsWide : RenderEvent(args, FALSE)

SpecRender == Init /\ [][NextRender]_vars

(* ------------------------------ claims ----------------------------------- *)
\* the children of the mounted plot group with the given id or class
Child(tag) == SelectSeq(svgs[1].plot.children, LAMBDA g : g.tag = tag)
\* the last render ran to its end
Completed == steps # <<>> /\ steps[Len(steps)] = "setFrameHeight"
Abs(v) == IF v < 0 THEN 0 - v ELSE v
Vertical == dimensions.orientation \in {"top", "bottom"}

\* C1: after one or more render events the document holds exactly one root
\* svg with id idendro, and it is the one the last render created
C1_OneRoot ==
    handled >= 1 =>
        /\ Cardinality({i \in DOMAIN svgs : svgs[i].id = "idendro"}) = 1
        /\ Len(svgs) = 1
        /\ svgs[1].width = dimensions.width
        /\ svgs[1].height = dimensions.height
        /\ svgs[1].plot.transform = <<dimensions.margin.left, dimensions.margin.top>>

\* a second render has replaced the root of the first, of another size
C1_Witness ==
    /\ handled = 2
    /\ Len(svgs) = 1
    /\ svgs[1].width = 350
    /\ Completed

\* C2: with nodes shown, exactly one tooltip element exists in the document,
\* and tooltips of earlier renders do not accumulate
C2_OneTooltip ==
    /\ Len(tooltips) <= 1
    /\ (Mounted # {} => Len(tooltips) = 1)

\* C3 as stated: a click reports exactly one value, the clicked node's record
\* with the field values the host supplied, and hover events report nothing
C3_ClickReportsHostRecord ==
    [][ /\ Click => /\ valueCount' = valueCount + 1
                    /\ componentValue' = << hostDendrogram.nodes[pointer.idx] >>
        /\ (pointer' # pointer \/ tooltips' # tooltips \/ circleR' # circleR)
              /\ handled' = handled
              => UNCHANGED << componentValue, valueCount >> ]_vars

\* C3 amended: a click reports exactly one value, the clicked node's record as
\* the component holds it: every field as the host supplied it, except that x
\* and y are exchanged after a left/right render of a fresh object (and are
\* either as supplied or exchanged after a re-render of the same object);
\* hover events report nothing
C3_ClickReportsHeldRecord ==
    [][ /\ Click =>
            LET h == hostDendrogram.nodes[pointer.idx]
                v == componentValue'[1]
            IN  /\ valueCount' = valueCount + 1
                /\ Len(componentValue') = 1
                /\ v = dendrogram.nodes[pointer.idx]
                /\ [v EXCEPT !.x = h.x, !.y = h.y] = h
                /\ (renderKind = "fresh" /\ Vertical) => v = h
                /\ (renderKind = "fresh" /\ ~Vertical) => (v.x = h.y /\ v.y = h.x)
                /\ <<v.x, v.y>> \in {<<h.x, h.y>>, <<h.y, h.x>>}
        /\ (pointer' # pointer \/ tooltips' # tooltips \/ circleR' # circleR)
              /\ handled' = handled
              => UNCHANGED << componentValue, valueCount >> ]_vars

\* a click on node 2 of a left drawing of a fresh object was reported with x
\* and y exchanged
C3_Witness ==
    /\ valueCount = 1
    /\ renderKind = "fresh"
    /\ dimensions.orientation = "left"
    /\ pointer.on \in {"circle", "text"}
    /\ componentValue = << dendrogram.nodes[2] >>
    /\ componentValue[1].x = hostDendrogram.nodes[2].y
    /\ componentValue[1].x # hostDendrogram.nodes[2].x

\* the table of the four orientations: ranges, and where each axis is drawn
AxisTable(d) ==
    CASE d.orientation = "top" ->
           [label_range |-> <<0, d.innerWidth>>, value_range |-> <<d.innerHeight, 0>>,
            label_axis_func |-> "axisBottom", label_axis_transform |-> <<0, d.innerHeight>>,
            value_axis_func |-> "axisLeft", value_axis_transform |-> <<0, 0>>]
      [] d.orientation = "bottom" ->
           [label_range |-> <<0, d.innerWidth>>, value_range |-> <<0, d.innerHeight>>,
            label_axis_func |-> "axisTop", label_axis_transform |-> <<0, 0>>,
            value_axis_func |-> "axisLeft", value_axis_transform |-> <<0, 0>>]
      [] d.orientation = "left" ->
           [label_range |-> <<d.innerHeight, 0>>, value_range |-> <<d.innerWidth, 0>>,
            label_axis_func |-> "axisRight", label_axis_transform |-> <<d.innerWidth, 0>>,
            value_axis_func |-> "axisBottom", value_axis_transform |-> <<0, d.innerHeight>>]
      [] d.orientation = "right" ->
           [label_range |-> <<d.innerHeight, 0>>, value_range |-> <<0, d.innerWidth>>,
            label_axis_func |-> "axisLeft", label_axis_transform |-> <<0, 0>>,
            value_axis_func |-> "axisBottom", value_axis_transform |-> <<0, d.innerHeight>>]

\* the pixel, along the value direction, of the edge the label axis is drawn at
LabelEdge(d) ==
    IF d.orientation \in {"top", "bottom"}
    THEN AxisTable(d).label_axis_transform[2]
    ELSE AxisTable(d).label_axis_transform[1]

\* the value coordinates the last payload uses
ValuesUsed ==
    {hostDendrogram.y_domain[1], hostDendrogram.y_domain[2]}
        \cup {hostDendrogram.links[1].y[i] : i \in DOMAIN hostDendrogram.links[1].y}

\* C4: in each orientation the ranges and the placement of both axes are those
\* of the table, and the minimum of the value domain maps to the edge where
\* the label axis is drawn, larger values lying farther from it
C4_AxisTable ==
    handled >= 1 =>
        LET T == AxisTable(dimensions)
            la == Child("label-axis")
            va == Child("value-axis")
        IN  /\ AxisLayout(dimensions) = T
            /\ Len(la) = 1
            /\ la[1].axis = T.label_axis_func
            /\ la[1].transform = T.label_axis_transform
            /\ \A i \in DOMAIN la[1].ticks :
                  la[1].ticks[i].at =
                      IF hostDendrogram.axis_labels[i].x = hostDendrogram.x_domain[1]
                      THEN T.label_range[1] ELSE T.label_range[2]
            /\ Completed =>
                  /\ Len(va) = 1
                  /\ va[1].axis = T.value_axis_func
                  /\ va[1].transform = T.value_axis_transform
                  /\ va[1].scale.range = T.value_range
                  /\ ScaleApply(va[1].scale, hostDendrogram.y_domain[1]) = LabelEdge(dimensions)
                  /\ \A v, w \in ValuesUsed :
                        v < w => Abs(ScaleApply(va[1].scale, v) - LabelEdge(dimensions))
                                   < Abs(ScaleApply(va[1].scale, w) - LabelEdge(dimensions))

\* a completed left drawing on a log scale with both axes and labelled ticks
C4_Witness ==
    /\ handled >= 1
    /\ Completed
    /\ dimensions.orientation = "left"
    /\ Len(Child("value-axis")) = 1
    /\ Child("value-axis")[1].scale.type = "log"
    /\ Len(Child("label-axis")[1].ticks) = 2

\* the render of the end-to-end scenario: bottom, linear, x_domain [0,1],
\* y_domain [0,10], inner box 100 by 100, nodes at (0,0) and (1,10), drawn
Scenario ==
    /\ handled >= 1
    /\ renderKind = "fresh"
    /\ dimensions.orientation = "bottom"
    /\ dimensions.innerWidth = 100
    /\ dimensions.innerHeight = 100
    /\ hostDendrogram.x_domain = <<0, 1>>
    /\ hostDendrogram.y_domain = <<0, 10>>
    /\ Len(Child("value-axis")) = 1
    /\ Child("value-axis")[1].scale.type = "linear"
    /\ Len(Child("node-container")) = 1
    /\ <<hostDendrogram.nodes[1].x, hostDendrogram.nodes[1].y>> = <<0, 0>>
    /\ <<hostDendrogram.nodes[2].x, hostDendrogram.nodes[2].y>> = <<1, 10>>

\* C5 as stated: in the scenario the node at (0,0) is drawn at pixel (0,100)
\* and the node at (1,10) at pixel (100,0)
C5_ScenarioAsStated ==
    Scenario =>
        /\ Child("node-container")[1].nodes[1].transform = <<0, 100>>
        /\ Child("node-container")[1].nodes[2].transform = <<100, 0>>

\* C5 amended: in the scenario the node at (0,0) is drawn at pixel (0,0) and
\* the node at (1,10) at pixel (100,100)
C5_ScenarioBottom ==
    Scenario =>
        /\ Child("node-container")[1].nodes[1].transform = <<0, 0>>
        /\ Child("node-container")[1].nodes[2].transform = <<100, 100>>

\* the scenario has been rendered
C5_Witness == Scenario /\ Completed

\* the pixel of logical (label a, value b) the claim names
Expected(a, b) ==
    LET lS == labelScale(dimensions, hostDendrogram)
        vS == Child("value-axis")[1].scale
    IN  IF Vertical THEN <<ScaleApply(lS, a), ScaleApply(vS, b)>>
        ELSE <<ScaleApply(vS, b), ScaleApply(lS, a)>>

\* the drawing of the last render follows the mapping of C6
MappingHolds ==
    /\ Len(Child("value-axis")) = 1
    /\ Len(Child("link-container")) = 1
    /\ \A k \in DOMAIN hostDendrogram.links :
          LET l == hostDendrogram.links[k]
              path == Child("link-container")[1].paths[k]
          IN  \A i \in DOMAIN l.x :
                 i <= Len(l.y) => path[i] = Expected(l.x[i], l.y[i])
    /\ \A c \in DOMAIN Child("node-container") :
          \A n \in DOMAIN hostDendrogram.nodes :
             Child("node-container")[c].nodes[n].transform =
                 Expected(hostDendrogram.nodes[n].x, hostDendrogram.nodes[n].y)
    /\ \A n \in DOMAIN hostDendrogram.nodes :
          IF Vertical
          THEN dendrogram.nodes[n] = hostDendrogram.nodes[n]
          ELSE dendrogram.nodes[n] =
                 [hostDendrogram.nodes[n] EXCEPT !.x = hostDendrogram.nodes[n].y,
                                                 !.y = hostDendrogram.nodes[n].x]

\* C6: on one render of a fresh object every link point and node with logical
\* (label a, value b) is drawn at (labelScale(a), valueScale(b)) for top/bottom
\* with the nodes unchanged, and at (valueScale(b), labelScale(a)) for
\* left/right with every node's x and y exchanged once
C6_FreshRenderMapping == renderKind = "fresh" => MappingHolds

\* the mapping of C6 on the renders that run to their end
C6_MappingWhenCompleted == (renderKind = "fresh" /\ Completed) => MappingHolds

\* C7: every render event handled is followed by exactly one frame-height
\* request, issued as the last step of the render
C7_FrameHeightAfterEveryRender ==
    /\ pc = Len(StartupScript) => frameHeightCalls = 1 + handled
    /\ handled >= 1 => Completed

\* C8: startup attaches the listener, then signals readiness once, then syncs
\* the frame height once; no render event is missed, none is sent or handled
\* before the ready signal
C8_StartupOrder ==
    /\ startupLog = SubSeq(<<"addEventListener", "setComponentReady", "setFrameHeight">>,
                           1, Len(startupLog))
    /\ readyCalls <= 1
    /\ readyCalls = 1 => listening
    /\ pc = Len(StartupScript) =>
          /\ readyCalls = 1
          /\ Cardinality({i \in DOMAIN startupLog : startupLog[i] = "setFrameHeight"}) = 1
    /\ missed = 0
    /\ sent = handled + queued
    /\ sent >= 1 => (readyCalls = 1 /\ listening)

\* a render event sent before the startup code ended has been handled
C8_Witness ==
    /\ handled >= 1
    /\ pc = Len(StartupScript)
    /\ readyCalls = 1
    /\ sent = handled

\* C9: a hovered circle has 1.5 times the node's radius, every other circle
\* its original radius (so hover-leave restores it and hovering the text
\* changes none), and with the pointer off the drawing the tooltip is hidden
C9_HoverRadius ==
    /\ \A n \in Mounted :
          circleR[n] = IF pointer = [on |-> "circle", idx |-> n]
                       THEN Enlarge(dendrogram.nodes[n].radius)
                       ELSE dendrogram.nodes[n].radius
    /\ (Mounted # {} /\ pointer = NoPointer) => tooltips[Tip].opacity = 0

\* the claim of C9 on the nodes that have a hover payload
C9_HoverRadiusWithPayload ==
    /\ \A n \in Mounted :
          dendrogram.nodes[n].hovertext.t # "null" =>
              circleR[n] = IF pointer = [on |-> "circle", idx |-> n]
                           THEN Enlarge(dendrogram.nodes[n].radius)
                           ELSE dendrogram.nodes[n].radius
    /\ (Mounted # {} /\ pointer = NoPointer) => tooltips[Tip].opacity = 0

\* C10: hover-enter on a node with a hover payload shows the tooltip, sets its
\* content from the payload and positions it at the pointer location of the
\* hover-enter event
C10_HoverEnterPositionsTooltip ==
    [][ \A nodeName \in {"circle", "text"}, n \in Mounted, xy \in PointerXY :
          (MouseOver(nodeName, n, xy) /\ dendrogram.nodes[n].hovertext.t # "null") =>
              LET t == tooltips'[Tip]
                  h == dendrogram.nodes[n].hovertext
              IN  /\ t.opacity = 1
                  /\ h.t = "string" => t.html = << <<h.s>> >>
                  /\ h.t = "object" =>
                        /\ Len(t.html) = Len(h.m)
                        /\ \A i \in DOMAIN h.m :
                              t.html[i][2] = h.m[i][1] /\ t.html[i][4] = h.m[i][2]
                  /\ t.pos = xy ]_vars

\* what hover-enter does do: the tooltip is shown with the payload's content
C10_HoverEnterShowsContent ==
    [][ \A nodeName \in {"circle", "text"}, n \in Mounted, xy \in PointerXY :
          (MouseOver(nodeName, n, xy) /\ dendrogram.nodes[n].hovertext.t # "null") =>
              /\ tooltips'[Tip].opacity = 1
              /\ tooltips'[Tip].html = HoverHtml(dendrogram.nodes[n].hovertext)
              /\ tooltips'[Tip].pos = tooltips[Tip].pos ]_vars

\* C11: malformed input raises no error: hover-enter on a node whose hover
\* payload is missing runs to the end of its handler (the circle is enlarged),
\* and a render of a link whose x and y differ in length runs to its end
C11_MalformedInputTolerated ==
    [][ /\ \A nodeName \in {"circle", "text"}, n \in Mounted, xy \in PointerXY :
              (MouseOver(nodeName, n, xy) /\ dendrogram.nodes[n].hovertext.t = "null") =>
                  /\ ~mouseover(tooltips[Tip], dendrogram.nodes[n], nodeName, circleR[n]).threw
                  /\ nodeName = "circle" => circleR'[n] = Enlarge(dendrogram.nodes[n].radius)
        /\ (handled' = handled + 1
              /\ \E k \in DOMAIN hostDendrogram'.links :
                    Len(hostDendrogram'.links[k].x) # Len(hostDendrogram'.links[k].y))
              => steps'[Len(steps')] = "setFrameHeight" ]_vars

\* the link half of C11: a render with axis labels and a link whose y is
\* shorter than its x runs to its end, the missing coordinates drawn at pixel 0
C11_MismatchedLinkCompletes ==
    (/\ handled >= 1
     /\ hostDendrogram.axis_labels # <<>>
     /\ Len(hostDendrogram.links[1].y) < Len(hostDendrogram.links[1].x))
        => /\ Completed
           /\ Len(Child("link-container")) = 1
           /\ LET path == Child("link-container")[1].paths[1]
              IN  /\ Len(path) = Len(hostDendrogram.links[1].x)
                  /\ \A i \in DOMAIN path :
                        i > Len(hostDendrogram.links[1].y) =>
                            (IF Vertical THEN path[i][2] ELSE path[i][1]) = 0

\* the side of the plot the drawn label axis lies on
LabelAxisSide ==
    LET g == Child("label-axis")[1]
    IN  CASE g.axis = "axisBottom" /\ g.transform = <<0, dimensions.innerHeight>> -> "bottom"
          [] g.axis = "axisTop" /\ g.transform = <<0, 0>> -> "top"
          [] g.axis = "axisRight" /\ g.transform = <<dimensions.innerWidth, 0>> -> "right"
          [] g.axis = "axisLeft" /\ g.transform = <<0, 0>> -> "left"
          [] OTHER -> "none"

\* C12: exactly one margin is 200, on the side opposite to the orientation
\* name, which is the side the label axis is drawn on; the other three are 50;
\* the inner box is the size less the margins
C12_Margins ==
    handled >= 1 =>
        LET d == dimensions
            opposite == CASE d.orientation = "top" -> "bottom"
                          [] d.orientation = "bottom" -> "top"
                          [] d.orientation = "left" -> "right"
                          [] d.orientation = "right" -> "left"
        IN  /\ \A side \in {"top", "right", "bottom", "left"} :
                  d.margin[side] = IF side = opposite THEN 200 ELSE 50
            /\ LabelAxisSide = opposite
            /\ d.height = svgs[1].height
            /\ d.width = svgs[1].width
            /\ d.innerHeight = d.height - d.margin.top - d.margin.bottom
            /\ d.innerWidth = d.width - d.margin.left - d.margin.right
            /\ <<d.innerHeight, d.innerWidth>> =
                  IF d.orientation \in {"top", "bottom"}
                  THEN <<d.height - 250, d.width - 100>>
                  ELSE <<d.height - 100, d.width - 250>>
            /\ svgs[1].plot.transform = <<d.margin.left, d.margin.top>>

\* a right drawing 350 wide and 200 high: left margin 200, inner box 100 by 100
C12_Witness ==
    /\ handled >= 1
    /\ dimensions.orientation = "right"
    /\ dimensions.margin.left = 200
    /\ dimensions.margin.right = 50
    /\ dimensions.innerWidth = 100
    /\ dimensions.innerHeight = 100
    /\ LabelAxisSide = "left"

\* every link with as many y as x has x.length derived points and x.length
\* drawn points, the i-th built from (x[i], y[i])
LinkPointsKept ==
    \A k \in DOMAIN hostDendrogram.links :
        LET l == hostDendrogram.links[k]
            data == dendrogram.links[k].data
        IN  Len(l.x) = Len(l.y) =>
               /\ Len(data) = Len(l.x)
               /\ \A i \in DOMAIN l.x :
                     data[i] = IF Vertical THEN [x |-> l.x[i], y |-> l.y[i]]
                               ELSE [y |-> l.x[i], x |-> l.y[i]]
               /\ Len(Child("link-container")) = 1
               /\ Len(Child("link-container")[1].paths[k]) = Len(l.x)
               /\ \A i \in DOMAIN l.x :
                     Child("link-container")[1].paths[k][i] = Expected(l.x[i], l.y[i])

\* C13: after a render, for every link with x.length = y.length the derived
\* sequence and the drawn path have exactly x.length points, the i-th built
\* from (x[i], y[i]) in the original order, in every orientation
C13_LinkPointsKept == handled >= 1 => LinkPointsKept

\* the point count and order of C13 on the renders that run to their end
C13_LinkPointsKeptWhenCompleted == (handled >= 1 /\ Completed) => LinkPointsKept

\* a render step obeys C14; with onlyCompleted, only the render steps that
\* run to their end are looked at
RenderKeepsInput(onlyCompleted) ==
    (/\ handled' = handled + 1
     /\ onlyCompleted => steps'[Len(steps')] = "setFrameHeight") =>
        LET o == dimensions'.orientation
            vertical == o \in {"top", "bottom"}
            before == IF renderKind' = "fresh" THEN hostDendrogram' ELSE dendrogram
            after == dendrogram'
            host == hostDendrogram'
            group(tag) == SelectSeq(svgs'[1].plot.children, LAMBDA g : g.tag = tag)
            lS == labelScale(dimensions', host)
            vS == group("value-axis")[1].scale
            swapped(n) == /\ after.nodes[n].x = host.nodes[n].y
                          /\ after.nodes[n].y = host.nodes[n].x
            original(n) == /\ after.nodes[n].x = host.nodes[n].x
                           /\ after.nodes[n].y = host.nodes[n].y
        IN  \* the inputs are left as they were
            /\ after.axis_labels = before.axis_labels
            /\ after.x_domain = before.x_domain
            /\ after.y_domain = before.y_domain
            /\ \A k \in DOMAIN before.links :
                  /\ after.links[k].x = before.links[k].x
                  /\ after.links[k].y = before.links[k].y
            /\ after.axis_labels = host.axis_labels
            /\ <<after.x_domain, after.y_domain>> = <<host.x_domain, host.y_domain>>
            /\ \A k \in DOMAIN host.links :
                  /\ after.links[k].x = host.links[k].x
                  /\ after.links[k].y = host.links[k].y
            \* link.data is recomputed from x and y by this render
            /\ \A k \in DOMAIN after.links :
                  LET l == after.links[k]
                  IN  /\ Len(l.data) = Len(l.x)
                      /\ \A i \in DOMAIN l.x : i <= Len(l.y) =>
                            l.data[i] = IF vertical THEN [x |-> l.x[i], y |-> l.y[i]]
                                        ELSE [y |-> l.x[i], x |-> l.y[i]]
            \* the same object with the same options: the links at the same pixels
            /\ (/\ renderKind' = "same"
                /\ dimensions' = dimensions
                /\ group("value-axis") = Child("value-axis"))
                  => /\ Len(group("link-container")) = 1
                     /\ group("link-container") = Child("link-container")
            \* a left/right render exchanges x and y of every node, others do not
            /\ Len(group("link-container")) = 1 =>
                  \A n \in DOMAIN after.nodes :
                     IF vertical
                     THEN /\ after.nodes[n].x = before.nodes[n].x
                          /\ after.nodes[n].y = before.nodes[n].y
                     ELSE /\ after.nodes[n].x = before.nodes[n].y
                          /\ after.nodes[n].y = before.nodes[n].x
            \* the second of two left/right renders of one object: the nodes are
            \* back at their original values and are drawn transposed
            /\ (/\ renderKind = "fresh"
                /\ renderKind' = "same"
                /\ dimensions.orientation \in {"left", "right"}
                /\ ~vertical)
                  => /\ \A n \in DOMAIN after.nodes : original(n)
                     /\ \A c \in DOMAIN group("node-container") :
                           \A n \in DOMAIN host.nodes :
                              group("node-container")[c].nodes[n].transform =
                                 << ScaleApply(vS, host.nodes[n].x),
                                    ScaleApply(lS, host.nodes[n].y) >>
            \* in a left/right drawing the nodes lie on the links exactly when
            \* their x and y are exchanged with respect to the host's values
            /\ ~vertical =>
                  \A c \in DOMAIN group("node-container") :
                     \A n \in DOMAIN host.nodes :
                        /\ swapped(n) \/ original(n)
                        /\ swapped(n) =>
                              group("node-container")[c].nodes[n].transform =
                                 << ScaleApply(vS, host.nodes[n].y),
                                    ScaleApply(lS, host.nodes[n].x) >>
                        /\ original(n) =>
                              group("node-container")[c].nodes[n].transform =
                                 << ScaleApply(vS, host.nodes[n].x),
                                    ScaleApply(lS, host.nodes[n].y) >>

\* C14: every render leaves the links' x and y, the axis labels and the
\* domains as they were and recomputes link.data from them, so that the same
\* object is drawn with its links at the same pixels each time; two left/right
\* renders of one object put every node's x and y back, the second drawing
\* the nodes transposed relative to the links
C14_RenderKeepsInput == [][RenderKeepsInput(FALSE)]_vars

\* C14 on the renders that run to their end
C14_RenderKeepsInputWhenCompleted == [][RenderKeepsInput(TRUE)]_vars

\* the second of two left/right renders of one object has drawn its second
\* node, back at (1, 10), away from the end of the link it belongs to
C14_SecondRenderTransposed ==
    /\ handled = 2
    /\ renderKind = "same"
    /\ Completed
    /\ ~Vertical
    /\ Len(Child("node-container")) = 1
    /\ hostDendrogram.y_domain = <<0, 10>>
    /\ <<dendrogram.nodes[2].x, dendrogram.nodes[2].y>> = <<1, 10>>
    /\ Child("node-container")[1].nodes[2].transform
          # Child("link-container")[1].paths[1][3]

\* C15: whenever the pointer is over neither a node of the mounted drawing
\* nor a tooltip element, no tooltip element of the document is visible
C15_NoTooltipLeftVisible ==
    pointer.on \notin {"circle", "text", "tooltip"} =>
        \A t \in DOMAIN tooltips : tooltips[t].opacity = 0

\* C15 for the tooltip of the mounted drawing alone
C15_MountedTooltipHidden ==
    (pointer.on \notin {"circle", "text", "tooltip"} /\ Mounted # {}) =>
        tooltips[Tip].opacity = 0

\* C16: a render whose dendrogram has no axis labels runs to its end: the
\* container, both axes, the links and, when asked for, the nodes are drawn
\* and the frame height is requested
C16_EmptyLabelsRenderCompletes ==
    (handled >= 1 /\ hostDendrogram.axis_labels = <<>>) =>
        /\ Completed
        /\ Len(svgs) = 1
        /\ Len(Child("label-axis")) = 1
        /\ Len(Child("value-axis")) = 1
        /\ Len(Child("link-container")) = 1
        /\ frameHeightCalls = 1 + handled

\* with axis labels every render runs to its end and draws every group
C16_LabelledRenderCompletes ==
    (handled >= 1 /\ hostDendrogram.axis_labels # <<>>) =>
        /\ Completed
        /\ Len(Child("label-axis")) = 1
        /\ Len(Child("value-axis")) = 1
        /\ Len(Child("link-container")) = 1

====
